---- MODULE Spec2Model ----
(***************************************************************************)
(* Token-lifecycle state machine of the AuthProvider component             *)
(* (src/unnamed/part_002, lines 255-422) and of the token helpers          *)
(* (src/unnamed/part_001).                                                 *)
(*                                                                         *)
(* One action of the model is one macrotask of the JavaScript event loop:  *)
(* a user call, the settlement of an external callback, the firing of a    *)
(* timer.  The action contains every setState the macrotask issues, the    *)
(* re-render that follows and the effects of that render (reconciliation   *)
(* pass, re-arming of the two timers, onTokenChange effect), repeated      *)
(* until no setState is pending.                                           *)
(*                                                                         *)
(* The hooks of @reactit/hooks follow their documented contracts:         *)
(* useStorage holds the state and persists every value set; a function     *)
(* wrapped by useSharedPromise returns the promise in flight, if any,      *)
(* instead of running again (docs/api.md: "guarded"); useScheduledEffect   *)
(* runs its callback once when the given instant is reached and re-arms    *)
(* when the instant changes; wrapped functions are the latest render's,    *)
(* so an async function sees the state of the render before its call, and  *)
(* keeps seeing it after an await.                                         *)
(*                                                                         *)
(* Spec is the provider; CodecSpec calls the two token helpers on their   *)
(* own, on arguments the provider's runs do not produce; MountSpec is a    *)
(* mount nobody calls, with the fairness its progress rests on; ReloadSpec *)
(* is the provider with page reloads.                                      *)
(*                                                                         *)
(* Optional values (a?: T) are sequences of length 0 or 1.                 *)
(***************************************************************************)
EXTENDS Integers, Sequences, FiniteSets, TLC

\* ------------------------------------------------------------------ bounds
MaxTicks == 2
MaxOps == 2

\* ---------------------------------------------------------- program values
MsPerSec == 1000

StartTime == 1 * MsPerSec
MaxTime == StartTime + MaxTicks * MsPerSec

Absent == <<>>
Some(x) == <<x>>
Has(o) == o # <<>>

\* JavaScript truthiness of an optional number / an optional string
TruthyNum(o) == Has(o) /\ o[1] # 0
TruthyStr(o) == Has(o) /\ o[1] # ""

\* ------------------------------------------------------------- token codec
Num(n) == Some([k |-> "num", v |-> n])
Date(ms) == Some([k |-> "date", v |-> ms])

\* A value that is neither a number, a Date nor undefined
Other(kind) == Some([k |-> kind, v |-> 0])

\* coerceExpiration throws `Unknown expiration format`
coerceExpirationThrows(exp) == Has(exp) /\ exp[1].k \notin {"num", "date"}

\* Variant: a number is taken as milliseconds from now.
coerceExpirationMillis(exp, t) ==
    IF ~Has(exp) THEN Absent
    ELSE IF exp[1].k = "num" THEN Some(t + exp[1].v)
    ELSE IF exp[1].k = "date" THEN Some(exp[1].v)
    ELSE Absent

\* The value coerceExpiration returns at instant t (none when it throws)
coerceExpiration(exp, t) ==
    IF ~Has(exp) THEN Absent
    ELSE IF exp[1].k = "num" THEN Some(t + exp[1].v * MsPerSec)
    ELSE IF exp[1].k = "date" THEN Some(exp[1].v)
    ELSE Absent

isTokenBundleValid(bundle, t) ==
    bundle.token # "" /\ (~TruthyNum(bundle.expiresAt) \/ bundle.expiresAt[1] >= t)

Bundle(tk, exp) == [token |-> tk, expiresAt |-> exp]

\* ------------------------------------------------------------------- state
AuthState(i, a, r, u) == [initialized |-> i, auth |-> a, renew |-> r, user |-> u]

DefaultState == AuthState(FALSE, Absent, Absent, Absent)

\* state.auth?.token
TokenOf(s) == IF Has(s.auth) THEN Some(s.auth[1].token) ELSE Absent
\* state.auth?.expiresAt, state.renew?.expiresAt
AuthExp(s) == IF Has(s.auth) THEN s.auth[1].expiresAt ELSE Absent
RenewExp(s) == IF Has(s.renew) THEN s.renew[1].expiresAt ELSE Absent

\* useAuth().isAuthenticated and useAuthUser() for the context value s
isAuthenticated(s) == Has(s.auth)
useAuthUser(s) == s.user

\* What the storage may hold under the configured key when the provider
\* mounts: nothing (DefaultState stands for it), or a state committed by an
\* earlier session.
StoredStates ==
    { DefaultState,
      AuthState(TRUE, Some(Bundle("t1", Some(StartTime + MsPerSec))),
                      Some(Bundle("r1", Some(StartTime + 2 * MsPerSec))), Some("u1")),
      AuthState(TRUE, Some(Bundle("t1", Some(StartTime - 500))),
                      Some(Bundle("r1", Some(StartTime + MsPerSec))), Absent),
      AuthState(TRUE, Absent, Some(Bundle("r1", Absent)), Absent),
      AuthState(TRUE, Some(Bundle("t2", Some(StartTime - 500))), Absent, Absent) }

\* AuthActionResult values the external callbacks may resolve with and that
\* setAuth may be given.
ActionResult(tk, te, r, re, u) ==
    [token |-> tk, tokenExpiration |-> te, renew |-> r, renewExpiration |-> re, user |-> u]

Results ==
    { ActionResult("t1", Num(1), Absent, Absent, Absent),
      ActionResult("t2", Num(1), Some("r2"), Num(2), Some("u2")),
      ActionResult("t1", Absent, Absent, Absent, Some("u1")) }

NoResult == ActionResult("", Absent, Absent, Absent, Absent)

Errors == {"e1"}
Inputs == {"i1", "i2"}

Resolved(r) == [ok |-> TRUE, res |-> r, err |-> ""]
Rejected(e) == [ok |-> FALSE, res |-> NoResult, err |-> e]
Outcomes == {Resolved(r) : r \in Results} \cup {Rejected(e) : e \in Errors}

Ops == {"signIn", "renew", "signOut"}

\* No helper called yet
NoCall == [fn |-> "none", arg |-> Absent, t |-> 0, out |-> Absent, threw |-> FALSE]

\* The props the provider is mounted with.
Config(r, o, m) ==
    [doSignIn |-> TRUE, doRenew |-> r, doSignOut |-> o, renewOnMount |-> m,
     devToken |-> Absent, devUser |-> Absent, devSignedIn |-> FALSE]

\* The same props with a development token
DevConfig(c, user, signedIn) ==
    [c EXCEPT !.devToken = Some("td"), !.devUser = user, !.devSignedIn = signedIn]

Configs ==
    { [Config(FALSE, FALSE, FALSE) EXCEPT !.doSignIn = FALSE],
      Config(FALSE, TRUE, TRUE),
      Config(TRUE, TRUE, FALSE),
      Config(TRUE, FALSE, TRUE),
      DevConfig(Config(TRUE, FALSE, FALSE), Some("ud"), TRUE),
      DevConfig(Config(FALSE, FALSE, FALSE), Absent, FALSE) }

\* The first argument of useStorage: the state when the storage holds nothing
InitialState(c) ==
    IF c.devSignedIn /\ TruthyStr(c.devToken)
    THEN AuthState(TRUE, Some(Bundle(c.devToken[1], Absent)), Absent, Absent)
    ELSE DefaultState

\* The result signInAsync makes up from the development token
DevResult(c) == ActionResult(c.devToken[1], Absent, Absent, Absent, c.devUser)

VARIABLES
    cfg,          \* props of the provider
    now,          \* Date.now()
    phase,        \* "loaded" (useStorage has read the storage) | "mounted"
    state,        \* the AuthState held by useStorage
    storage,      \* what is persisted under the storage key
    mounted,      \* mounted.current
    isFirst,      \* isFirst.current
    authFired,    \* the auth timer armed for state.auth.expiresAt has fired
    renewFired,   \* the renew timer armed for state.renew.expiresAt has fired
    fl,           \* per operation: the executions of the callback in flight
    ops,          \* number of user calls made so far
    ev,           \* the macrotask that produced this state
    emitted,      \* tokens passed to onTokenChange by that macrotask, in order
    lastTok,      \* the last token passed to onTokenChange, if any
    commits,      \* setState calls of that macrotask, in order
    settled,      \* callers of the promise settled by that macrotask, with the outcome
    call,         \* the last call of a token helper on its own, with what it returned
    passes        \* runs of the reconciliation effect in that macrotask, in order

vars == <<cfg, now, phase, state, storage, mounted, isFirst, authFired, renewFired,
          fl, ops, ev, emitted, lastTok, commits, settled, call, passes>>

\* ------------------------------------------------------------------ world
\* The part of the variables a macrotask threads through its steps.
World ==
    [state |-> state, storage |-> storage, mounted |-> mounted, isFirst |-> isFirst,
     authFired |-> authFired, renewFired |-> renewFired, fl |-> fl,
     emitted |-> <<>>, commits |-> <<>>, settled |-> <<>>, passes |-> <<>>,
     rendered |-> state, dirty |-> FALSE]

\* setState(st): useStorage keeps the value and persists it.
\* The commit is logged with the latest state before it (base), with the
\* AuthActionResult it processes, if any, and with the number of onTokenChange
\* calls the macrotask has made before it (seen).
\* Variant: the value is kept in memory only.
CommitResInMemory(w, by, st, res) ==
    [w EXCEPT !.commits = Append(@, [by |-> by, base |-> w.state, st |-> st, res |-> res,
                                     seen |-> Len(w.emitted)]),
              !.state = st, !.dirty = TRUE]

CommitRes(w, by, st, res) ==
    [w EXCEPT !.commits = Append(@, [by |-> by, base |-> w.state, st |-> st, res |-> res,
                                     seen |-> Len(w.emitted)]),
              !.state = st, !.storage = st, !.dirty = TRUE]

Commit(w, by, st) == CommitRes(w, by, st, NoResult)

Waiter(kind, input, snap, ai, ri) ==
    [kind |-> kind, input |-> input, snap |-> snap, authInv |-> ai, renewInv |-> ri]

Manual(input) == Waiter("manual", input, DefaultState, FALSE, FALSE)

Flight(input, waiter) == [input |-> input, waiters |-> <<waiter>>]

\* Variant: the callback is not wrapped by useSharedPromise.
InFlightNever(flights) == FALSE

\* useSharedPromise: a call while the tracked promise is unsettled returns it.
InFlight(flights) == Len(flights) > 0

\* fn(...) behind useSharedPromise: join the tracked promise, or invoke fn
Join(w, op, waiter) ==
    [w EXCEPT !.fl[op][1].waiters = Append(@, waiter)]

Start(w, op, input, waiter) ==
    [w EXCEPT !.fl[op] = Append(@, Flight(input, waiter))]

\* Variant: a result without a renew token drops the renew bundle held.
processResultDropsRenew(res, s, t) ==
    AuthState(TRUE,
              Some(Bundle(res.token, coerceExpiration(res.tokenExpiration, t))),
              IF TruthyStr(res.renew)
                  THEN Some(Bundle(res.renew[1], coerceExpiration(res.renewExpiration, t)))
                  ELSE Absent,
              IF TruthyStr(res.user) THEN res.user ELSE s.user)

\* processResult / processExit
processResult(res, s, t) ==
    AuthState(TRUE,
              Some(Bundle(res.token, coerceExpiration(res.tokenExpiration, t))),
              IF TruthyStr(res.renew)
                  THEN Some(Bundle(res.renew[1], coerceExpiration(res.renewExpiration, t)))
                  ELSE s.renew,
              IF TruthyStr(res.user) THEN res.user ELSE s.user)

\* Variant: processExit resets the state to the value of an empty storage.
processExitUninitialized == AuthState(FALSE, Absent, Absent, Absent)

\* processExit: setState({ initialized: true })
processExit == AuthState(TRUE, Absent, Absent, Absent)

\* setState(_state => ...) of processResult: computed from the latest state
ResultCommit(w, res) == CommitRes(w, "processResult", processResult(res, w.state, now), res)

\* Variant: the effect only sets a state when a bundle is invalid.
ReconCommitOnlyInvalid(w, s, ai, ri) ==
    LET w1 == IF ai \/ ri
              THEN Commit(w, "recon",
                          [s EXCEPT !.initialized = TRUE,
                                    !.auth = IF ai THEN Absent ELSE s.auth,
                                    !.renew = IF ri THEN Absent ELSE s.renew])
              ELSE w
    IN [w1 EXCEPT !.isFirst = FALSE]

\* Tail of the reconciliation effect, after the renewal attempt was skipped
\* or has failed; s is the state captured by the effect's closure.
ReconCommit(w, s, ai, ri) ==
    LET w1 == IF w.isFirst \/ ai \/ ri
              THEN Commit(w, "recon",
                          [s EXCEPT !.initialized = TRUE,
                                    !.auth = IF ai THEN Absent ELSE s.auth,
                                    !.renew = IF ri THEN Absent ELSE s.renew])
              ELSE w
    IN [w1 EXCEPT !.isFirst = FALSE]

\* Variant: the effect sets initialized before it attempts the renewal.
ReconPassCommitsFirst(w, s) ==
    LET ai == Has(s.auth) /\ ~isTokenBundleValid(s.auth[1], now)
        ri == Has(s.renew) /\ ~isTokenBundleValid(s.renew[1], now)
        me == Waiter("recon", "undef", s, ai, ri)
    IN IF (w.isFirst /\ cfg.renewOnMount) \/ ~Has(s.auth) \/ ai
       THEN IF InFlight(w.fl["renew"]) THEN Join(w, "renew", me)
            ELSE IF ~cfg.doRenew THEN ReconCommit(w, s, ai, ri)
            ELSE Start(ReconCommit(w, s, ai, ri), "renew", "undef", me)
       ELSE ReconCommit(w, s, ai, ri)

\* A run of the effect is logged with the state it runs on and with whether
\* it calls renewTokenAsync.
Pass(w, s, attempt) ==
    [w EXCEPT !.passes = Append(@, [s |-> s, attempt |-> attempt])]

\* The reconciliation effect, run for the rendered state s.
ReconPass(w, s) ==
    LET ai == Has(s.auth) /\ ~isTokenBundleValid(s.auth[1], now)
        ri == Has(s.renew) /\ ~isTokenBundleValid(s.renew[1], now)
        me == Waiter("recon", "undef", s, ai, ri)
    IN IF (w.isFirst /\ cfg.renewOnMount) \/ ~Has(s.auth) \/ ai
       THEN IF InFlight(w.fl["renew"]) THEN Join(Pass(w, s, TRUE), "renew", me)
            ELSE IF ~cfg.doRenew THEN ReconCommit(Pass(w, s, TRUE), s, ai, ri)
            ELSE Start(Pass(w, s, TRUE), "renew", "undef", me)
       ELSE ReconCommit(Pass(w, s, FALSE), s, ai, ri)

\* Variant: the effect has an empty dependency list.
TokenChangedNever(p, s) == FALSE

\* Variant: the effect depends on !!state.auth instead of the token.
TokenChangedPresence(p, s) == Has(p.auth) # Has(s.auth)

\* The onTokenChange effect, dependency [state.auth?.token].
TokenChanged(p, s) == TokenOf(p) # TokenOf(s)

\* Variant: the first onTokenChange call is made by an effect that runs after
\* the reconciliation effect instead of by the render body.
RenderOnceLateSync(w, first) ==
    LET s == w.state
        p == w.rendered
        sync == TruthyStr(TokenOf(s)) /\ ~w.mounted
        w1 == [w EXCEPT !.rendered = s, !.dirty = FALSE]
        w2 == ReconPass(w1, s)
        w3 == [w2 EXCEPT !.authFired = IF first \/ AuthExp(p) # AuthExp(s) THEN FALSE ELSE @,
                         !.renewFired = IF first \/ RenewExp(p) # RenewExp(s) THEN FALSE ELSE @,
                         !.mounted = @ \/ sync,
                         !.emitted = IF sync THEN Append(@, TokenOf(s)) ELSE @]
    IN [w3 EXCEPT !.emitted = IF first \/ TokenChanged(p, s) THEN Append(@, TokenOf(s)) ELSE @]

\* Variant: the two timers are armed by the first render only.
RenderOnceArmsOnce(w, first) ==
    LET s == w.state
        p == w.rendered
        sync == TruthyStr(TokenOf(s)) /\ ~w.mounted
        w1 == [w EXCEPT !.rendered = s, !.dirty = FALSE,
                        !.mounted = @ \/ sync,
                        !.emitted = IF sync THEN Append(@, TokenOf(s)) ELSE @]
        w2 == ReconPass(w1, s)
        w3 == [w2 EXCEPT !.authFired = IF first THEN FALSE ELSE @,
                         !.renewFired = IF first THEN FALSE ELSE @]
    IN [w3 EXCEPT !.emitted = IF first \/ TokenChanged(p, s) THEN Append(@, TokenOf(s)) ELSE @]

\* One render of the component for the latest state, and its effects.
RenderOnce(w, first) ==
    LET s == w.state
        p == w.rendered
        sync == TruthyStr(TokenOf(s)) /\ ~w.mounted
        w1 == [w EXCEPT !.rendered = s, !.dirty = FALSE,
                        !.mounted = @ \/ sync,
                        !.emitted = IF sync THEN Append(@, TokenOf(s)) ELSE @]
        w2 == ReconPass(w1, s)
        w3 == [w2 EXCEPT !.authFired = IF first \/ AuthExp(p) # AuthExp(s) THEN FALSE ELSE @,
                         !.renewFired = IF first \/ RenewExp(p) # RenewExp(s) THEN FALSE ELSE @]
    IN [w3 EXCEPT !.emitted = IF first \/ TokenChanged(p, s) THEN Append(@, TokenOf(s)) ELSE @]

Rerender(w) == IF w.dirty THEN RenderOnce(w, FALSE) ELSE w

\* Renders until no setState is pending.
Finish(w) == Rerender(Rerender(Rerender(Rerender(w))))

\* The variables after a macrotask that ends in world w.
Apply(world, name) ==
    \E w \in {world} :
    /\ ~w.dirty
    /\ state' = w.state
    /\ storage' = w.storage
    /\ mounted' = w.mounted
    /\ isFirst' = w.isFirst
    /\ authFired' = w.authFired
    /\ renewFired' = w.renewFired
    /\ fl' = w.fl
    /\ emitted' = w.emitted
    /\ lastTok' = IF w.emitted = <<>> THEN lastTok ELSE Some(w.emitted[Len(w.emitted)])
    /\ commits' = w.commits
    /\ settled' = w.settled
    /\ ev' = name
    /\ call' = call
    /\ passes' = w.passes

Init ==
    /\ cfg \in Configs
    /\ now = StartTime
    /\ phase = "loaded"
    /\ \E st \in StoredStates :
          state = IF st = DefaultState THEN InitialState(cfg) ELSE st
    /\ storage = state
    /\ mounted = FALSE
    /\ isFirst = TRUE
    /\ authFired = FALSE
    /\ renewFired = FALSE
    /\ fl = [o \in Ops |-> <<>>]
    /\ ops = 0
    /\ ev = "Init"
    /\ emitted = <<>>
    /\ lastTok = Absent
    /\ commits = <<>>
    /\ settled = <<>>
    /\ call = NoCall
    /\ passes = <<>>

\* First render of the provider and its effects.
Mount ==
    /\ phase = "loaded"
    /\ phase' = "mounted"
    /\ Apply(Finish(RenderOnce(World, TRUE)), "Mount")
    /\ UNCHANGED <<cfg, now, ops>>

\* ------------------------------------------------------------------ timers
AuthTimerDue ==
    /\ phase = "mounted"
    /\ TruthyNum(AuthExp(state))
    /\ AuthExp(state)[1] <= now
    /\ ~authFired

RenewTimerDue ==
    /\ phase = "mounted"
    /\ TruthyNum(RenewExp(state))
    /\ RenewExp(state)[1] <= now
    /\ ~renewFired

Tick ==
    /\ phase = "mounted"
    /\ now < MaxTime
    /\ ~AuthTimerDue
    /\ ~RenewTimerDue
    /\ now' = now + MsPerSec
    /\ ev' = "Tick"
    /\ emitted' = <<>>
    /\ commits' = <<>>
    /\ settled' = <<>>
    /\ passes' = <<>>
    /\ UNCHANGED <<cfg, phase, state, storage, mounted, isFirst, authFired, renewFired,
                   fl, ops, lastTok, call>>

\* taskSchedulePromise, up to its await or, when renewTokenAsync throws at
\* once, to its end.
AuthTimerFire ==
    /\ AuthTimerDue
    /\ LET w0 == [World EXCEPT !.authFired = TRUE]
           me == Waiter("timer", "undef", state, FALSE, FALSE)
           w1 == IF InFlight(fl["renew"]) THEN Join(w0, "renew", me)
                 ELSE IF ~cfg.doRenew
                      THEN Commit(w0, "authTimer", [state EXCEPT !.auth = Absent])
                 ELSE Start(w0, "renew", "undef", me)
       IN Apply(Finish(w1), "AuthTimerFire")
    /\ UNCHANGED <<cfg, now, phase, ops>>

\* Variant: the renew timer signs the client out.
RenewTimerFireKicksOut ==
    /\ RenewTimerDue
    /\ LET w0 == [World EXCEPT !.renewFired = TRUE]
           w1 == Commit(w0, "renewTimer", processExit)
       IN Apply(Finish(w1), "RenewTimerFire")
    /\ UNCHANGED <<cfg, now, phase, ops>>

\* The callback of the renew timer: setState({ ...state, renew: undefined })
RenewTimerFire ==
    /\ RenewTimerDue
    /\ LET w0 == [World EXCEPT !.renewFired = TRUE]
           w1 == Commit(w0, "renewTimer", [state EXCEPT !.renew = Absent])
       IN Apply(Finish(w1), "RenewTimerFire")
    /\ UNCHANGED <<cfg, now, phase, ops>>

\* ------------------------------------------------------------ user calls
CanCall == phase = "mounted" /\ ops < MaxOps

\* The callers that hold a promise, with the outcome it settles with.
Settle(op, waiters, out) ==
    [i \in DOMAIN waiters |->
        [op |-> op, kind |-> waiters[i].kind, input |-> waiters[i].input, out |-> out]]

\* Variant: doSignIn is called without testing that it is there.
SignInRouteUnchecked(c) ==
    IF TruthyStr(c.devToken) THEN "dev" ELSE "doSignIn"

\* The branch signInAsync takes
SignInRoute(c) ==
    IF TruthyStr(c.devToken) THEN "dev"
    ELSE IF c.doSignIn THEN "doSignIn"
    ELSE "throw"

\* signInAsync(input), up to the await of doSignIn or, when it does not call
\* doSignIn, to its end
SignInCall(input) ==
    /\ CanCall
    /\ ops' = ops + 1
    /\ LET me == Manual(input)
           route == SignInRoute(cfg)
           w1 == IF InFlight(fl["signIn"]) THEN Join(World, "signIn", me)
                 ELSE IF route = "dev"
                      THEN [ResultCommit(World, DevResult(cfg))
                               EXCEPT !.settled = Settle("signIn", <<me>>, Resolved(DevResult(cfg)))]
                 ELSE IF route = "throw"
                      THEN [World EXCEPT !.settled = Settle("signIn", <<me>>, Rejected("no sign-in function"))]
                 ELSE Start(World, "signIn", input, me)
       IN Apply(Finish(w1), "SignInCall")
    /\ UNCHANGED <<cfg, now, phase>>

\* Variant: the tracked promise is kept after it has settled.
ClearNever(w, op, i) == w

\* Remove the i-th execution of op: the tracked promise is cleared on settlement.
Clear(w, op, i) ==
    [w EXCEPT !.fl[op] = SubSeq(@, 1, i - 1) \o SubSeq(@, i + 1, Len(@))]

\* Variant: a rejected doSignIn signs the user out.
SignInSettleKicksOut(i, out) ==
    /\ phase = "mounted"
    /\ i \in DOMAIN fl["signIn"]
    /\ LET f == fl["signIn"][i]
           w0 == Clear(World, "signIn", i)
           w1 == IF out.ok THEN ResultCommit(w0, out.res)
                 ELSE Commit(w0, "processExit", processExit)
           w2 == [w1 EXCEPT !.settled = Settle("signIn", f.waiters, out)]
       IN Apply(Finish(w2), "SignInSettle")
    /\ UNCHANGED <<cfg, now, phase, ops>>

\* doSignIn settles: processResult(res) on success, nothing on failure.
SignInSettle(i, out) ==
    /\ phase = "mounted"
    /\ i \in DOMAIN fl["signIn"]
    /\ LET f == fl["signIn"][i]
           w0 == Clear(World, "signIn", i)
           w1 == IF out.ok THEN ResultCommit(w0, out.res)
                 ELSE w0
           w2 == [w1 EXCEPT !.settled = Settle("signIn", f.waiters, out)]
       IN Apply(Finish(w2), "SignInSettle")
    /\ UNCHANGED <<cfg, now, phase, ops>>

\* renewTokenAsync(input) called by the application
RenewCall ==
    /\ CanCall
    /\ ops' = ops + 1
    /\ LET me == Manual("i1")
           w1 == IF InFlight(fl["renew"]) THEN Join(World, "renew", me)
                 ELSE IF ~cfg.doRenew
                      THEN [World EXCEPT !.settled = Settle("renew", <<me>>, Rejected("no renew function"))]
                 ELSE Start(World, "renew", "i1", me)
       IN Apply(Finish(w1), "RenewCall")
    /\ UNCHANGED <<cfg, now, phase>>

\* Variant: renewTokenAsync itself clears auth when doRenew rejects, so that
\* a failed manual renewal signs the user out.
RECURSIVE RenewFailedKicksOut(_, _)
RenewFailedKicksOut(w, waiters) ==
    IF waiters = <<>> THEN w
    ELSE LET x == Head(waiters)
             w1 == IF x.kind = "timer"
                       THEN Commit(w, "authTimer", [x.snap EXCEPT !.auth = Absent])
                   ELSE IF x.kind = "recon"
                       THEN ReconCommit(w, x.snap, x.authInv, x.renewInv)
                   ELSE Commit(w, "authTimer", [w.state EXCEPT !.auth = Absent])
         IN RenewFailedKicksOut(w1, Tail(waiters))

\* Variant: the automatic callers swallow the rejection and set nothing.
RenewFailedIgnored(w, waiters) == w

\* Continuations of the automatic callers of renewTokenAsync after it has
\* rejected, in the order in which they joined the promise.
RECURSIVE RenewFailed(_, _)
RenewFailed(w, waiters) ==
    IF waiters = <<>> THEN w
    ELSE LET x == Head(waiters)
             w1 == IF x.kind = "timer"
                       THEN Commit(w, "authTimer", [x.snap EXCEPT !.auth = Absent])
                   ELSE IF x.kind = "recon"
                       THEN ReconCommit(w, x.snap, x.authInv, x.renewInv)
                   ELSE w
         IN RenewFailed(w1, Tail(waiters))

\* doRenew settles
RenewSettle(i, out) ==
    /\ phase = "mounted"
    /\ i \in DOMAIN fl["renew"]
    /\ LET f == fl["renew"][i]
           w0 == Clear(World, "renew", i)
           w1 == IF out.ok THEN ResultCommit(w0, out.res)
                 ELSE RenewFailed(w0, f.waiters)
           w2 == [w1 EXCEPT !.settled = Settle("renew", f.waiters, out)]
       IN Apply(Finish(w2), "RenewSettle")
    /\ UNCHANGED <<cfg, now, phase, ops>>

\* signOutAsync(input), up to the await of doSignOut or, without doSignOut,
\* to its end
SignOutCall ==
    /\ CanCall
    /\ ops' = ops + 1
    /\ LET me == Manual("i1")
           w1 == IF InFlight(fl["signOut"]) THEN Join(World, "signOut", me)
                 ELSE IF ~cfg.doSignOut
                      THEN [Commit(World, "processExit", processExit) EXCEPT !.settled = Settle("signOut", <<me>>, Resolved(NoResult))]
                 ELSE Start(World, "signOut", "i1", me)
       IN Apply(Finish(w1), "SignOutCall")
    /\ UNCHANGED <<cfg, now, phase>>

\* Variant: the await of doSignOut is not wrapped in try/catch.
SignOutSettleThrows(i, rejects) ==
    /\ phase = "mounted"
    /\ i \in DOMAIN fl["signOut"]
    /\ LET f == fl["signOut"][i]
           w0 == Clear(World, "signOut", i)
           w1 == IF rejects THEN w0 ELSE Commit(w0, "processExit", processExit)
           w2 == [w1 EXCEPT !.settled = Settle("signOut", f.waiters,
                                IF rejects THEN Rejected("e1") ELSE Resolved(NoResult))]
       IN Apply(Finish(w2), IF rejects THEN "SignOutSettleRejected" ELSE "SignOutSettle")
    /\ UNCHANGED <<cfg, now, phase, ops>>

\* doSignOut settles; its outcome is discarded
SignOutSettle(i, rejects) ==
    /\ phase = "mounted"
    /\ i \in DOMAIN fl["signOut"]
    /\ LET f == fl["signOut"][i]
           w0 == Clear(World, "signOut", i)
           w1 == Commit(w0, "processExit", processExit)
           w2 == [w1 EXCEPT !.settled = Settle("signOut", f.waiters, Resolved(NoResult))]
       IN Apply(Finish(w2), IF rejects THEN "SignOutSettleRejected" ELSE "SignOutSettle")
    /\ UNCHANGED <<cfg, now, phase, ops>>

\* ctx.setAuth(res)
SetAuth(res) ==
    /\ CanCall
    /\ ops' = ops + 1
    /\ Apply(Finish(ResultCommit(World, res)), "SetAuth")
    /\ UNCHANGED <<cfg, now, phase>>

Next ==
    \/ Mount
    \/ Tick
    \/ AuthTimerFire
    \/ RenewTimerFire
    \/ \E input \in Inputs : SignInCall(input)
    \/ \E i \in 1..2, out \in Outcomes : SignInSettle(i, out)
    \/ RenewCall
    \/ \E i \in 1..2, out \in Outcomes : RenewSettle(i, out)
    \/ SignOutCall
    \/ \E i \in 1..2, rejects \in BOOLEAN : SignOutSettle(i, rejects)
    \/ \E res \in Results : SetAuth(res)

Spec == Init /\ [][Next]_vars

\* ------------------------------------------------ a mount left to itself
\* The provider mounts and nobody calls it: what runs is the mount, the
\* timers and the settlement of the doRenew the provider has invoked.  React
\* runs the first render of a mounted provider, and an invoked doRenew is
\* taken to settle.
MountNext ==
    \/ Mount
    \/ Tick
    \/ AuthTimerFire
    \/ RenewTimerFire
    \/ \E i \in 1..2, out \in Outcomes : RenewSettle(i, out)

MountSpec ==
    /\ Init
    /\ [][MountNext]_vars
    /\ WF_vars(Mount)
    /\ WF_vars(\E i \in 1..2, out \in Outcomes : RenewSettle(i, out))

\* ------------------------------------------------------------ page reload
\* The page is reloaded: the refs, the timers and the promises of the page
\* are gone, and the next first render has useStorage read the storage
\* again.  An empty storage gives the initial value, which is what storage
\* holds here as long as nothing was set (see Init).
Reload ==
    /\ phase = "mounted"
    /\ phase' = "loaded"
    /\ state' = storage
    /\ mounted' = FALSE
    /\ isFirst' = TRUE
    /\ authFired' = FALSE
    /\ renewFired' = FALSE
    /\ fl' = [o \in Ops |-> <<>>]
    /\ ev' = "Reload"
    /\ emitted' = <<>>
    /\ lastTok' = Absent
    /\ commits' = <<>>
    /\ settled' = <<>>
    /\ passes' = <<>>
    /\ UNCHANGED <<cfg, now, storage, ops, call>>

ReloadNext ==
    \/ Next
    \/ Reload

ReloadSpec == Init /\ [][ReloadNext]_vars

\* ------------------------------------------------- the token helpers alone
\* isTokenBundleValid and coerceExpiration called on their own, at an instant
\* and with an argument drawn from the sets below.
CodecTimes == {StartTime + k * 500 : k \in 0..(2 * MaxTicks)}

CodecBundles ==
    {Bundle(tk, e) : tk \in {"", "t1"},
                     e \in {Absent} \cup {Some(x) : x \in {0, 500, MaxTime + 500} \cup CodecTimes}}

CodecExpirations ==
    {Absent} \cup {Num(n) : n \in -1..2}
             \cup {Date(x) : x \in {0} \cup CodecTimes}
             \cup {Other(kind) : kind \in {"string", "null", "object"}}

\* Results and latest states processResult is applied to on its own; the
\* user "" stands for a user that is supplied and falsy.
CodecResults ==
    {ActionResult("t2", te, r, re, u) :
        te \in {Absent, Num(1)}, r \in {Absent, Some("r2")}, re \in {Absent, Num(2)},
        u \in {Absent, Some(""), Some("u2")}}

CodecStates ==
    { DefaultState,
      AuthState(TRUE, Some(Bundle("t1", Some(MaxTime))), Some(Bundle("r1", Absent)), Some("u1")),
      AuthState(TRUE, Absent, Absent, Some("u1")) }

CodecInit ==
    /\ cfg = Config(FALSE, FALSE, FALSE)
    /\ now \in CodecTimes
    /\ phase = "loaded"
    /\ state = DefaultState
    /\ storage = state
    /\ mounted = FALSE
    /\ isFirst = TRUE
    /\ authFired = FALSE
    /\ renewFired = FALSE
    /\ fl = [o \in Ops |-> <<>>]
    /\ ops = 0
    /\ ev = "Init"
    /\ emitted = <<>>
    /\ lastTok = Absent
    /\ commits = <<>>
    /\ settled = <<>>
    /\ call = NoCall
    /\ passes = <<>>

CallIsTokenBundleValid(bundle) ==
    /\ call' = [fn |-> "isTokenBundleValid", arg |-> bundle, t |-> now,
                out |-> isTokenBundleValid(bundle, now), threw |-> FALSE]
    /\ UNCHANGED <<cfg, now, phase, state, storage, mounted, isFirst, authFired, renewFired,
                   fl, ops, ev, emitted, lastTok, commits, settled, passes>>

CallCoerceExpiration(exp) ==
    /\ call' = [fn |-> "coerceExpiration", arg |-> exp, t |-> now,
                out |-> coerceExpiration(exp, now), threw |-> coerceExpirationThrows(exp)]
    /\ UNCHANGED <<cfg, now, phase, state, storage, mounted, isFirst, authFired, renewFired,
                   fl, ops, ev, emitted, lastTok, commits, settled, passes>>

\* The updater processResult hands to setState, applied to the latest state s
CallProcessResult(res, s) ==
    /\ call' = [fn |-> "processResult", arg |-> [res |-> res, s |-> s], t |-> now,
                out |-> processResult(res, s, now), threw |-> FALSE]
    /\ UNCHANGED <<cfg, now, phase, state, storage, mounted, isFirst, authFired, renewFired,
                   fl, ops, ev, emitted, lastTok, commits, settled, passes>>

CodecNext ==
    \/ \E bundle \in CodecBundles : CallIsTokenBundleValid(bundle)
    \/ \E exp \in CodecExpirations : CallCoerceExpiration(exp)
    \/ \E res \in CodecResults, s \in CodecStates : CallProcessResult(res, s)

CodecSpec == CodecInit /\ [][CodecNext]_vars

\* ================================================================= claims
IsManual(x) == x.kind = "manual"
IsTimer(x) == x.kind = "timer"
Callers(sq) == SelectSeq(sq, IsManual)
HasKind(waiters, kind) == \E i \in DOMAIN waiters : waiters[i].kind = kind
TimerPending == \E i \in DOMAIN fl["renew"] : HasKind(fl["renew"][i].waiters, "timer")
SignOutEvents == {"SignOutCall", "SignOutSettle", "SignOutSettleRejected"}
RenewRejected == ev \in {"RenewCall", "RenewSettle"} /\ settled # <<>> /\ ~settled[1].out.ok

\* C1: while a signIn is unsettled there is exactly one execution of doSignIn,
\* whatever the number and the inputs of the signIn calls made meanwhile, and
\* when it settles every one of those callers gets the same outcome and none
\* is left waiting.
C1_SignInSingleFlight ==
    /\ Len(fl["signIn"]) <= 1
    /\ ev = "SignInSettle" =>
          /\ fl["signIn"] = <<>>
          /\ \A i, j \in DOMAIN settled : settled[i].out = settled[j].out

\* Two callers with different inputs were served by one settlement.
C1_Witness ==
    /\ ev = "SignInSettle"
    /\ Len(Callers(settled)) >= 2
    /\ settled[1].input # settled[2].input
    /\ settled[1].out = settled[2].out

\* C2: for each of doSignIn, doRenew and doSignOut at most one execution is
\* in flight in every reachable state.
C2_OneExecutionPerCallback == \A o \in Ops : Len(fl[o]) <= 1

\* One execution of doRenew serves the reconciliation pass, the auth timer
\* and a manual renewToken call together.
C2_Witness ==
    /\ Len(fl["renew"]) = 1
    /\ HasKind(fl["renew"][1].waiters, "recon")
    /\ HasKind(fl["renew"][1].waiters, "timer")
    /\ HasKind(fl["renew"][1].waiters, "manual")

C5_ExpiryWithoutRenewal ==
    [][(ev' = "AuthTimerFire" /\ ~cfg.doRenew /\ ~Has(state.renew)) =>
          /\ ~Has(state'.auth)
          /\ emitted' = <<Absent>>
          /\ fl'["signOut"] = fl["signOut"]
          /\ \A i \in DOMAIN commits' : commits'[i].by # "processExit"]_vars

C5_Witness ==
    /\ ev = "AuthTimerFire"
    /\ ~cfg.doRenew
    /\ cfg.doSignOut
    /\ commits # <<>>
    /\ Has(commits[1].base.auth) /\ ~Has(commits[1].base.renew)
    /\ ~Has(state.auth)
    /\ emitted = <<Absent>>

\* C6: when the renewal the auth timer waits for fails, the state its failure
\* path sets has no auth, and the renew bundle and the user that were held
\* when the failure arrived.
C6_ExpiryFailureDropsOnlyAuth ==
    \A i \in DOMAIN commits :
        commits[i].by = "authTimer" =>
            /\ ~Has(commits[i].st.auth)
            /\ commits[i].st.renew = commits[1].base.renew
            /\ commits[i].st.user = commits[1].base.user

\* C7: when doRenew resolves with R for a renewal the auth timer waits for,
\* auth becomes {R.token, coerce(R.tokenExpiration)}, the renew bundle is the
\* one held before unless R supplies one, and from the firing of the timer to
\* that commit no state without auth is committed (sign-out and a failing
\* renewal aside).
C7_TimerRenewalReplacesAuth ==
    /\ [](  (ev = "RenewSettle" /\ (\E i \in DOMAIN settled : IsTimer(settled[i]))
                /\ commits # <<>> /\ commits[1].by = "processResult") =>
            LET c == commits[1] IN
              /\ c.st.auth = Some(Bundle(c.res.token, coerceExpiration(c.res.tokenExpiration, now)))
              /\ c.st.renew = IF Has(c.res.renew)
                                THEN Some(Bundle(c.res.renew[1],
                                                 coerceExpiration(c.res.renewExpiration, now)))
                                ELSE c.base.renew )
    /\ [][(TimerPending /\ Has(state.auth) /\ ev' \notin SignOutEvents
             /\ ~(ev' = "RenewSettle" /\ ~settled'[1].out.ok)) =>
          /\ Has(state'.auth)
          /\ \A i \in DOMAIN commits' : Has(commits'[i].st.auth)]_vars

\* The timer's renewal succeeded without a new renew token while a valid
\* renew bundle was held: the bundle is still there.
C7_Witness ==
    /\ ev = "RenewSettle"
    /\ \E i \in DOMAIN settled : IsTimer(settled[i])
    /\ commits # <<>> /\ commits[1].by = "processResult"
    /\ ~Has(commits[1].res.renew)
    /\ Has(commits[1].base.renew)
    /\ isTokenBundleValid(commits[1].base.renew[1], now)
    /\ Has(commits[1].base.auth)
    /\ TokenOf(commits[1].base) # TokenOf(state)
    /\ state.renew = commits[1].base.renew

\* C8: a signIn from an unauthenticated state whose doSignIn resolves
\* {token: T, tokenExpiration: n} at instant t0 leaves initialized = true and
\* auth = {T, t0 + n*1000}, and calls onTokenChange exactly once, with T.
C8_SignInNotifiesOnce ==
    (ev = "SignInSettle" /\ commits # <<>> /\ commits[1].by = "processResult"
        /\ ~Has(commits[1].base.auth)
        /\ Has(commits[1].res.tokenExpiration) /\ commits[1].res.tokenExpiration[1].k = "num") =>
    LET r == commits[1].res IN
        /\ state.initialized
        /\ state.auth = Some(Bundle(r.token, Some(now + r.tokenExpiration[1].v * 1000)))
        /\ emitted = <<Some(r.token)>>

\* C9: onTokenChange is never called twice in a row with the same token, and
\* a macrotask that leaves state.auth?.token as it was calls it not at all.
C9_OncePerTokenValue ==
    /\ \A i \in 1..(Len(emitted) - 1) : emitted[i] # emitted[i + 1]
    /\ (commits # <<>> /\ TokenOf(commits[1].base) = TokenOf(state)) => emitted = <<>>

\* C10: after every macrotask the last token handed to onTokenChange is the
\* current state.auth?.token.
C10_NoTokenChangeMissed ==
    phase = "mounted" => lastTok = Some(TokenOf(state))

\* A renewal replaced the token by another one and onTokenChange got it.
C10_Witness ==
    /\ ev = "RenewSettle"
    /\ commits # <<>>
    /\ Has(commits[1].base.auth) /\ Has(state.auth)
    /\ TokenOf(commits[1].base) # TokenOf(state)
    /\ lastTok = Some(TokenOf(state))

\* C11: when the state the provider mounts with holds a token, the first
\* render calls onTokenChange with that token before anything else happens:
\* it is the first call of the mount, every setState of the reconciliation
\* pass comes after it, and timer callbacks only run once the mount is over.
C11_FirstMountCallIsSynchronous ==
    [][/\ (ev' = "Mount" /\ TruthyStr(TokenOf(state))) =>
             /\ mounted'
             /\ emitted' # <<>>
             /\ emitted'[1] = TokenOf(state)
             /\ \A i \in DOMAIN commits' : commits'[i].seen >= 1
       /\ ev' \in {"AuthTimerFire", "RenewTimerFire"} => phase = "mounted"]_vars

\* The provider mounted with a stored token and its reconciliation pass
\* committed a state; onTokenChange had been called with the token before.
C11_Witness ==
    /\ ev = "Mount"
    /\ commits # <<>>
    /\ commits[1].by = "recon"
    /\ commits[1].seen = 1
    /\ TruthyStr(TokenOf(commits[1].base))
    /\ emitted[1] = TokenOf(commits[1].base)

\* C12: once the state has initialized = true, every state set later has it
\* too, whichever path sets it: processResult, processExit, the reconciliation
\* commit, the failure path of the auth timer, the renew timer.
C12_InitializedMonotone ==
    /\ [](\A i \in DOMAIN commits :
            (commits[1].base.initialized \/ \E j \in 1..(i - 1) : commits[j].st.initialized)
                => commits[i].st.initialized)
    /\ [][state.initialized => state'.initialized]_vars

\* The failure path of the auth timer set a state after initialization.
C12_Witness ==
    /\ ev = "RenewSettle"
    /\ commits # <<>>
    /\ commits[1].by = "authTimer"
    /\ commits[1].base.initialized
    /\ commits[1].st.initialized
    /\ state.initialized

\* C13: while the first reconciliation pass of a mount has not completed (it
\* is waiting for doRenew), the state the consumers get has initialized = false.
C13_UninitializedUntilFirstPass ==
    (ev = "Mount" /\ fl["renew"] # <<>> /\ HasKind(fl["renew"][1].waiters, "recon"))
        => ~state.initialized

\* C14: when doSignIn rejects, the state and the persisted state stay as they
\* were, no setState and no onTokenChange call is made, and every caller of
\* that signIn gets a promise rejected with the error of doSignIn.
C14_SignInFailureKeepsState ==
    [][(ev' = "SignInSettle" /\ ~settled'[1].out.ok) =>
          /\ state' = state
          /\ storage' = storage
          /\ commits' = <<>>
          /\ emitted' = <<>>
          /\ \A i \in DOMAIN settled' :
                ~settled'[i].out.ok /\ settled'[i].out.err \in Errors]_vars

\* doSignIn rejected a signIn made while authenticated: still authenticated.
C14_Witness ==
    /\ ev = "SignInSettle"
    /\ settled # <<>>
    /\ settled[1].out = Rejected("e1")
    /\ Has(state.auth)
    /\ storage = state
    /\ emitted = <<>>

\* C15: signIn with neither a development token nor doSignIn, and renewToken
\* without doRenew, reject with the provider's own error, start no execution
\* of any callback, and leave the state and the persisted state as they were.
C15_NoHandlerRejects ==
    [][/\ (ev' = "SignInCall" /\ ~TruthyStr(cfg.devToken) /\ ~cfg.doSignIn) =>
             /\ Len(settled') = 1
             /\ settled'[1].out = Rejected("no sign-in function")
             /\ fl' = fl
             /\ state' = state /\ storage' = storage /\ commits' = <<>>
       /\ (ev' = "RenewCall" /\ ~cfg.doRenew) =>
             /\ Len(settled') = 1
             /\ settled'[1].out = Rejected("no renew function")
             /\ fl' = fl
             /\ state' = state /\ storage' = storage /\ commits' = <<>>]_vars

\* signIn was called while authenticated on a provider without doSignIn.
C15_Witness ==
    /\ ev = "SignInCall"
    /\ ~cfg.doSignIn
    /\ settled # <<>>
    /\ settled[1].out = Rejected("no sign-in function")
    /\ Has(state.auth)
    /\ fl["signIn"] = <<>>

\* C16: setAuth(result) starts no execution of doSignIn, doRenew or doSignOut;
\* for a result without tokenExpiration it sets auth = {result.token, no
\* expiresAt} and user = result.user; and an auth bundle without expiresAt is
\* never taken away by the auth-expiration timer.
C16_SetAuthNeverExpires ==
    /\ [][ev' = "SetAuth" => \A o \in Ops : Len(fl'[o]) = Len(fl[o])]_vars
    /\ []((ev = "SetAuth" /\ ~Has(commits[1].res.tokenExpiration)) =>
            /\ commits[1].st.auth = Some(Bundle(commits[1].res.token, Absent))
            /\ commits[1].st.user = commits[1].res.user
            /\ ~AuthTimerDue)
    /\ [][(ev = "SetAuth" /\ Has(state.auth) /\ ~Has(AuthExp(state))) =>
              \A i \in DOMAIN commits' : commits'[i].by # "authTimer"]_vars

\* C17: with a development token configured no execution of doSignIn is ever
\* started; every signIn sets auth = {devToken, no expiresAt} and user =
\* devUser; and the auth bundle it sets is not taken away by the
\* auth-expiration timer.
C17_DevSignIn ==
    /\ [](TruthyStr(cfg.devToken) => fl["signIn"] = <<>>)
    /\ []((ev = "SignInCall" /\ TruthyStr(cfg.devToken)) =>
            /\ commits # <<>>
            /\ commits[1].st.auth = Some(Bundle(cfg.devToken[1], Absent))
            /\ commits[1].st.user = cfg.devUser
            /\ ~AuthTimerDue)
    /\ [][(ev = "SignInCall" /\ TruthyStr(cfg.devToken)) =>
              \A i \in DOMAIN commits' : commits'[i].by # "authTimer"]_vars

C19_ValidIffNotExpired ==
    call.fn = "isTokenBundleValid" =>
        (call.out = FALSE <=>
            (call.arg.token = ""
             \/ (Has(call.arg.expiresAt) /\ call.arg.expiresAt[1] < call.t)))

\* C20: coerceExpiration returns now + n*1000 for a number n (zero and
\* negative included), the instant itself for a Date, undefined for undefined,
\* and throws for every other value.
C20_CoerceExpiration ==
    call.fn = "coerceExpiration" =>
        LET e == call.arg IN
        IF ~Has(e) THEN ~call.threw /\ call.out = Absent
        ELSE IF e[1].k = "num" THEN ~call.threw /\ call.out = Some(call.t + e[1].v * 1000)
        ELSE IF e[1].k = "date" THEN ~call.threw /\ call.out = Some(e[1].v)
        ELSE call.threw

\* A negative number of seconds gives an instant before now.
C20_Witness ==
    /\ call.fn = "coerceExpiration"
    /\ call.arg = Num(-1)
    /\ call.out = Some(call.t - 1000)
    /\ ~call.threw

\* C21: whenever the provider is mounted and the state has no auth bundle,
\* useAuthUser returns undefined; in particular after the auth timer has
\* removed the bundle.
C21_NoUserWhenUnauthenticated ==
    (phase = "mounted" /\ ~isAuthenticated(state)) => useAuthUser(state) = Absent

\* C22: the user changes only when a sign-out clears it or a result supplies
\* a new one: a step that is not a sign-out never takes a user away, and a
\* step that sets no result with a user leaves the user as it was.
C22_UserClearedOnlyOnSignOut ==
    [][phase = "mounted" =>
          /\ (Has(state.user) /\ ~Has(state'.user)) => ev' \in SignOutEvents
          /\ (state'.user # state.user /\ ev' \notin SignOutEvents) =>
                \E i \in DOMAIN commits' :
                    commits'[i].by = "processResult" /\ commits'[i].res.user = state'.user]_vars

\* C26: a state set by an operation that resumes after an awaited callback
\* is the latest state with that operation's own change merged in: a
\* successful signIn or renewal sets processResult of the latest state, the
\* failure path of the auth timer changes nothing but auth, and the
\* reconciliation pass changes nothing but initialized and the bundles it
\* found invalid.
C26_ReadLatestThenMerge ==
    (ev \in {"SignInSettle", "RenewSettle"} /\ commits # <<>>) =>
        LET c == commits[1] IN
        /\ c.by = "processResult" => c.st = processResult(c.res, c.base, now)
        /\ c.by = "authTimer" => c.st = [c.base EXCEPT !.auth = Absent]
        /\ c.by = "recon" =>
              /\ c.st.user = c.base.user
              /\ c.st.auth \in {c.base.auth, Absent}
              /\ c.st.renew \in {c.base.renew, Absent}

\* C29: processResult applied to a result R and the latest state S gives
\* initialized = true, auth = {R.token, coerce(R.tokenExpiration)}, renew =
\* {R.renew, coerce(R.renewExpiration)} when R.renew is supplied and S.renew
\* otherwise, user = R.user when R.user is supplied, falsy or not, and S.user
\* otherwise.
C29_ProcessResult ==
    call.fn = "processResult" =>
        LET R == call.arg.res
            S == call.arg.s
        IN /\ call.out.initialized
           /\ call.out.auth = Some(Bundle(R.token, coerceExpiration(R.tokenExpiration, call.t)))
           /\ call.out.renew = IF Has(R.renew)
                                  THEN Some(Bundle(R.renew[1], coerceExpiration(R.renewExpiration, call.t)))
                                  ELSE S.renew
           /\ call.out.user = IF Has(R.user) THEN R.user ELSE S.user

\* C28: with renewOnMount and a valid stored auth bundle, once the renewal
\* started by the first reconciliation pass has resolved no further doRenew
\* is started: the pass that follows the commit of the result does not renew.
C28_RenewOnMountOnlyOnce ==
    [][(ev' = "RenewSettle" /\ settled'[1].out.ok /\ HasKind(settled', "recon")
          /\ cfg.renewOnMount /\ ops = 0
          /\ Has(state.auth) /\ isTokenBundleValid(state.auth[1], now)) =>
          fl'["renew"] = <<>>]_vars

\* C30: a reconciliation pass calls renewToken exactly when the state it runs
\* on has no auth or an invalid one, or when it is the first pass of the mount
\* and renewOnMount is set; and the state a pass sets holds no invalid bundle
\* and every valid bundle of the state before.
C30_ReconciliationConditions ==
    /\ \A i \in DOMAIN passes :
          passes[i].attempt <=>
              \/ ~Has(passes[i].s.auth)
              \/ ~isTokenBundleValid(passes[i].s.auth[1], now)
              \/ (ev = "Mount" /\ i = 1 /\ cfg.renewOnMount)
    /\ \A i \in DOMAIN commits :
          commits[i].by = "recon" =>
              LET b == commits[i].base
                  st == commits[i].st
              IN /\ st.auth = IF Has(b.auth) /\ isTokenBundleValid(b.auth[1], now)
                                 THEN b.auth ELSE Absent
                 /\ st.renew = IF Has(b.renew) /\ isTokenBundleValid(b.renew[1], now)
                                  THEN b.renew ELSE Absent

\* C27: after the mount, if every doRenew that is invoked settles, a state
\* with initialized = true is eventually set, whatever the storage holds and
\* whatever the props are.
C27_EventuallyInitialized ==
    <>(\E i \in DOMAIN commits : commits[i].st.initialized)

\* Empty storage and a doRenew that rejects: the reconciliation pass sets
\* initialized after the failure.
C27_Witness ==
    /\ ev = "RenewSettle"
    /\ ops = 0
    /\ ~settled[1].out.ok
    /\ commits # <<>>
    /\ commits[1].by = "recon"
    /\ ~commits[1].base.initialized
    /\ commits[1].st.initialized
    /\ state.initialized

\* C23: every setState is persisted in the same step, so storage always holds
\* the state; a reload gives the provider the state it had, without a call of
\* doSignIn; and the first render after it keeps an auth that has not
\* expired and leaves an unauthenticated state without auth.
C23_PersistedAndReloaded ==
    /\ [](storage = state)
    /\ [][ /\ ev' = "Reload" =>
               /\ state' = state
               /\ fl'["signIn"] = <<>>
           /\ (ev' = "Mount" /\ ev = "Reload") =>
               /\ fl'["signIn"] = <<>>
               /\ (/\ Has(state.auth)
                   /\ isTokenBundleValid(state.auth[1], now)) => state'.auth = state.auth
               /\ ~Has(state.auth) => ~Has(state'.auth) ]_vars

\* A reload, and the first render after it, of a page that was given the
\* token "t2" and the user "u2" by its one call, with no doRenew.
C23_Witness ==
    /\ ev = "Mount"
    /\ ops = 1
    /\ cfg.doSignIn
    /\ ~cfg.doRenew
    /\ ~Has(cfg.devToken)
    /\ Has(state.auth)
    /\ state.auth[1].token = "t2"
    /\ state.user = Some("u2")
    /\ storage = state
    /\ emitted = <<Some("t2"), Some("t2")>>
    /\ fl["signIn"] = <<>>

\* C24: with devToken and devSignedIn, the state a reload loads holds
\* auth.token = devToken and no doSignIn is running, whatever the storage
\* held.
C24_DevSignedInOnEveryMount ==
    (ev = "Reload" /\ cfg.devSignedIn /\ TruthyStr(cfg.devToken)) =>
        /\ Has(state.auth)
        /\ state.auth[1].token = cfg.devToken[1]
        /\ fl["signIn"] = <<>>

\* Executions of op started by a step that settles none (they are appended)
Started(op) == { i \in DOMAIN fl'[op] : i > Len(fl[op]) }

C32_TimersFollowState ==
    /\ [](/\ authFired => (TruthyNum(AuthExp(state)) /\ AuthExp(state)[1] <= now)
          /\ renewFired => (TruthyNum(RenewExp(state)) /\ RenewExp(state)[1] <= now))
    /\ [][ /\ (phase = "mounted" /\ AuthExp(state') # AuthExp(state)) => ~authFired'
           /\ (phase = "mounted" /\ RenewExp(state') # RenewExp(state)) => ~renewFired'
           /\ ev' = "AuthTimerFire" =>
               /\ TruthyNum(AuthExp(state)) /\ AuthExp(state)[1] <= now /\ ~authFired
               /\ RenewExp(state') = RenewExp(state)
               /\ renewFired' = renewFired
           /\ ev' = "RenewTimerFire" =>
               /\ TruthyNum(RenewExp(state)) /\ RenewExp(state)[1] <= now /\ ~renewFired
               /\ AuthExp(state') = AuthExp(state)
               /\ authFired' = authFired ]_vars

\* A renewal has replaced an auth bundle whose timer had fired: the timer of
\* the new expiresAt is armed while the renew timer is still pending.
C32_Witness ==
    /\ ev = "RenewSettle"
    /\ settled # <<>>
    /\ settled[1].kind = "timer"
    /\ settled[1].out.ok
    /\ TruthyNum(AuthExp(state))
    /\ AuthExp(state)[1] > now
    /\ ~authFired
    /\ TruthyNum(RenewExp(state))
    /\ ~renewFired

\* A call of op that finds no execution in flight starts one with its own
\* input and is handed no outcome in the same step.
StartsAfresh(op) ==
    /\ Len(fl'[op]) = 1
    /\ Len(fl'[op][1].waiters) = 1
    /\ fl'[op][1].waiters[1].kind = "manual"
    /\ fl'[op][1].waiters[1].input = fl'[op][1].input
    /\ settled' = <<>>

\* C33: the settlement of an execution, by success or by failure, removes it
\* from the executions tracked (a doRenew in flight after a settlement of
\* doRenew is a new one, started by the reconciliation effect), and a call
\* that finds none in flight invokes the callback again with its input
\* instead of returning a settled outcome.
C33_TrackingClearedOnSettle ==
    [][ /\ ev' = "SignInSettle" => Len(fl'["signIn"]) = Len(fl["signIn"]) - 1
        /\ ev' = "SignOutSettle" => Len(fl'["signOut"]) = Len(fl["signOut"]) - 1
        /\ ev' = "RenewSettle" =>
               \A i \in DOMAIN fl'["renew"] :
                   \A j \in DOMAIN fl'["renew"][i].waiters :
                       fl'["renew"][i].waiters[j].kind = "recon"
        /\ (ev' = "SignInCall" /\ fl["signIn"] = <<>> /\ SignInRoute(cfg) = "doSignIn")
               => StartsAfresh("signIn")
        /\ (ev' = "RenewCall" /\ fl["renew"] = <<>> /\ cfg.doRenew)
               => StartsAfresh("renew")
        /\ (ev' = "SignOutCall" /\ fl["signOut"] = <<>> /\ cfg.doSignOut)
               => StartsAfresh("signOut") ]_vars

\* The second call of the page is signIn("i2"), made when the first call has
\* set the user "u2" and no doSignIn is in flight: doSignIn runs for "i2".
C33_Witness ==
    /\ ev = "SignInCall"
    /\ ops = 2
    /\ ~cfg.doRenew
    /\ state.user = Some("u2")
    /\ Len(fl["signIn"]) = 1
    /\ fl["signIn"][1].input = "i2"
    /\ fl["signIn"][1].waiters = <<Manual("i2")>>

\* The states a macrotask has rendered: the one it started from and those it set
RenderedBy == {state} \cup {commits'[k].st : k \in DOMAIN commits'}

\* C34: every defined token a macrotask passes to onTokenChange is the token
\* of an auth bundle, of a state it has rendered, that is not expired at that
\* time; the mount of a stored state whose auth bundle is expired does not
\* pass that bundle's token.
C34_NoExpiredTokenHandedOut ==
    [][\A i \in DOMAIN emitted' :
          Has(emitted'[i]) =>
              \E s \in RenderedBy :
                  /\ Has(s.auth)
                  /\ s.auth[1].token = emitted'[i][1]
                  /\ isTokenBundleValid(s.auth[1], now)]_vars

\* C35: after the macrotask in which a sign-out has set its state, the next
\* macrotask leaves auth absent unless it is a call of signIn, setAuth or
\* renewToken: the settlement of a doRenew started by the reconciliation
\* effect, or of a doSignIn or doRenew already in flight, does not sign the
\* client in again.
C35_StaysSignedOut ==
    [][(/\ ev \in SignOutEvents
        /\ \E k \in DOMAIN commits : commits[k].by = "processExit"
        /\ ~Has(state.auth)
        /\ ev' \notin {"SignInCall", "SetAuth", "RenewCall"})
          => ~Has(state'.auth)]_vars

\* The auth bundle of the state is expired
AuthExpired == Has(state.auth) /\ ~isTokenBundleValid(state.auth[1], now)

\* A macrotask has set a state, and the last one it has set has no auth bundle
\* or one that is valid
SetsUnexpired ==
    /\ commits # <<>>
    /\ LET st == commits[Len(commits)].st
       IN ~Has(st.auth) \/ isTokenBundleValid(st.auth[1], now)

\* C36: if the first render runs and every doRenew invoked settles, an
\* expired auth bundle in the state, loaded from the storage or expired since
\* the mount, is followed by a macrotask that sets a state without auth or
\* with an auth bundle valid at that time.
C36_ExpiredAuthIsRemoved == AuthExpired ~> SetsUnexpired

\* The bundle has expired while doRenew was awaited for the auth timer, and
\* the resolved renewal replaces it.
C36_Witness ==
    /\ ev = "RenewSettle"
    /\ settled # <<>>
    /\ settled[1].kind = "timer"
    /\ settled[1].out.ok
    /\ commits # <<>>
    /\ Has(commits[1].base.auth)
    /\ ~isTokenBundleValid(commits[1].base.auth[1], now)
    /\ SetsUnexpired
    /\ Has(state.auth)

====
